---- MODULE Spec2Model ----
(***************************************************************************)
(* Face-track identity-continuity engine of the Vision AI Analyzer         *)
(* (App.tsx): the IoU scorer, the greedy track reconciler, the debounced   *)
(* attendance decision and the timer-driven analysis loop around them.     *)
(*                                                                         *)
(* Conventions of the translation                                          *)
(*  - A JavaScript Map is a sequence of entries in insertion order; set()  *)
(*    of an existing key replaces the value in place, set() of a new key   *)
(*    appends.                                                             *)
(*  - Array indices are 1-based here (0-based in the code); the code's     *)
(*    "no match" index -1 is NoIndex.                                      *)
(*  - An IoU value is the exact fraction [num, den] with den > 0; the      *)
(*    comparisons of the code are done by cross-multiplication.  For the   *)
(*    integer boxes of the model this agrees with the IEEE-754 division    *)
(*    of the code (2/5 evaluates to the literal 0.4).                      *)
(*  - React state (useState) is a variable; a callback created by          *)
(*    useCallback reads the state values of the render that created it,    *)
(*    so a detection call in flight carries the students / isApiError it   *)
(*    was started with.  The effect of lines 302-318 is re-run, inside     *)
(*    the action that changes one of its dependencies, after the handler   *)
(*    has run to completion (React 19 batches the updates).                *)
(*  - Date.now() is the variable now; it never decreases and its readings  *)
(*    are drawn from a few instants.  A timer callback runs at the first   *)
(*    of these instants at or after its due time, ahead of the events of   *)
(*    a later instant.                                                     *)
(***************************************************************************)
EXTENDS Integers, Sequences, FiniteSets, TLC

\* ---------------------------------------------------------------- bounds
MaxDets == 2
MaxId == 2
MaxTimeouts == 2

\* ------------------------------------------------------ program constants
ANALYSIS_INTERVAL == 30000
RATE_LIMIT_PAUSE_MS == 61000
ATTENDANCE_LOG_INTERVAL_MS == 300000
MAX_INACTIVITY_MS == 20000
IOU_THRESHOLD == [num |-> 2, den |-> 5]
InitialFaceId == 1

NoIndex == 0
NoTimer == 0

\* --------------------------------------------------------- input domains
Box(x, y, w, h) == [x |-> x, y |-> y, width |-> w, height |-> h]

BoxA == Box(0, 0, 7, 2)
BoxNear == Box(2, 0, 7, 2)
BoxEdge == Box(3, 0, 7, 2)
BoxFar == Box(20, 0, 7, 2)

Boxes == {BoxA, BoxNear, BoxEdge, BoxFar}
Labels == {"person_1"}
Frames == {"ok", "zero", "noctx"}

Detections == [boundingBox : Boxes, personId : Labels]
DetectionLists == UNION {[1..n -> Detections] : n \in 0..MaxDets}

\* ------------------------------------------------------------ the scorer
Max(a, b) == IF a >= b THEN a ELSE b
Min(a, b) == IF a <= b THEN a ELSE b

Zero == [num |-> 0, den |-> 1]
Gt(p, q) == p.num * q.den > q.num * p.den

calculateIoU(boxA, boxB) ==
  LET xA == Max(boxA.x, boxB.x)
      yA == Max(boxA.y, boxB.y)
      xB == Min(boxA.x + boxA.width, boxB.x + boxB.width)
      yB == Min(boxA.y + boxA.height, boxB.y + boxB.height)
      intersectionArea == Max(0, xB - xA) * Max(0, yB - yA)
      boxAArea == boxA.width * boxA.height
      boxBArea == boxB.width * boxB.height
      unionArea == boxAArea + boxBArea - intersectionArea
  IN  IF boxAArea <= 0 \/ boxBArea <= 0 THEN Zero
      ELSE IF unionArea = 0 THEN Zero
      ELSE [num |-> intersectionArea, den |-> unionArea]

\* ------------------------------------- the scorer in JavaScript numbers
\* A JavaScript number is an IEEE-754 binary64 value.  A finite one is
\* (-1)^neg * m * 2^e, where m is zero or has exactly Precision bits; m is
\* a natural number held as its digits to the base LimbBase, least
\* significant first.  Every operation rounds the exact result to Precision
\* bits, to nearest, ties to even.  The exponent range is not bounded: no
\* input of the model comes near overflow or underflow, and -0 is not told
\* apart from 0.
Precision == 53
LimbBits == 15
LimbBase == 32768

RECURSIVE Pow2(_)
Pow2(k) == IF k = 0 THEN 1 ELSE 2 * Pow2(k - 1)

RECURSIVE Limbs(_)
Limbs(n) == IF n = 0 THEN <<>> ELSE <<n % LimbBase>> \o Limbs(n \div LimbBase)

Limb(a, i) == IF i <= Len(a) THEN a[i] ELSE 0

RECURSIVE Trim(_)
Trim(a) ==
  IF a = <<>> THEN <<>>
  ELSE IF a[Len(a)] # 0 THEN a
  ELSE Trim(SubSeq(a, 1, Len(a) - 1))

\* the sum digit by digit; acc holds the digits below position Len(acc) + 1
RECURSIVE AddLoop(_, _, _, _)
AddLoop(a, b, carry, acc) ==
  IF Len(acc) >= Max(Len(a), Len(b))
    THEN IF carry = 1 THEN Append(acc, 1) ELSE acc
    ELSE AddLoop(a, b,
           (Limb(a, Len(acc) + 1) + Limb(b, Len(acc) + 1) + carry) \div LimbBase,
           Append(acc,
             (Limb(a, Len(acc) + 1) + Limb(b, Len(acc) + 1) + carry) % LimbBase))

BigAdd(a, b) == Trim(AddLoop(a, b, 0, <<>>))

\* a - b for a >= b
RECURSIVE SubLoop(_, _, _, _)
SubLoop(a, b, borrow, acc) ==
  IF Len(acc) >= Len(a) THEN acc
  ELSE IF Limb(a, Len(acc) + 1) - Limb(b, Len(acc) + 1) - borrow < 0
    THEN SubLoop(a, b, 1,
           Append(acc, Limb(a, Len(acc) + 1) - Limb(b, Len(acc) + 1) - borrow
                         + LimbBase))
    ELSE SubLoop(a, b, 0,
           Append(acc, Limb(a, Len(acc) + 1) - Limb(b, Len(acc) + 1) - borrow))

BigSub(a, b) == Trim(SubLoop(a, b, 0, <<>>))

RECURSIVE LessFrom(_, _, _)
LessFrom(a, b, i) ==
  IF i = 0 THEN FALSE
  ELSE IF a[i] # b[i] THEN a[i] < b[i]
  ELSE LessFrom(a, b, i - 1)

BigLess(a, b) ==
  IF Len(a) # Len(b) THEN Len(a) < Len(b) ELSE LessFrom(a, b, Len(a))

\* a * d for one digit d
RECURSIVE MulSmallLoop(_, _, _, _)
MulSmallLoop(a, d, carry, acc) ==
  IF Len(acc) >= Len(a)
    THEN IF carry > 0 THEN Append(acc, carry) ELSE acc
    ELSE MulSmallLoop(a, d, (a[Len(acc) + 1] * d + carry) \div LimbBase,
                      Append(acc, (a[Len(acc) + 1] * d + carry) % LimbBase))

MulSmall(a, d) == Trim(MulSmallLoop(a, d, 0, <<>>))

ShlLimbs(a, k) ==
  IF a = <<>> THEN <<>>
  ELSE [i \in 1..(Len(a) + k) |-> IF i <= k THEN 0 ELSE a[i - k]]

\* a * b = a * b[1] + LimbBase * (a * (b \div LimbBase))
RECURSIVE BigMul(_, _)
BigMul(a, b) ==
  IF b = <<>> THEN <<>>
  ELSE BigAdd(MulSmall(a, b[1]), ShlLimbs(BigMul(a, Tail(b)), 1))

\* a \div d for one digit d > 0, from the top digit down
RECURSIVE DivSmallLoop(_, _, _, _)
DivSmallLoop(a, d, rem, acc) ==
  IF Len(acc) >= Len(a) THEN acc
  ELSE DivSmallLoop(a, d, (rem * LimbBase + a[Len(a) - Len(acc)]) % d,
                    <<(rem * LimbBase + a[Len(a) - Len(acc)]) \div d>> \o acc)

\* a * 2^k and a \div 2^k
ShlBits(a, k) == ShlLimbs(MulSmall(a, Pow2(k % LimbBits)), k \div LimbBits)
ShrBits(a, k) ==
  Trim(DivSmallLoop(SubSeq(a, k \div LimbBits + 1, Len(a)),
                    Pow2(k % LimbBits), 0, <<>>))

RECURSIVE SmallLen(_)
SmallLen(n) == IF n = 0 THEN 0 ELSE 1 + SmallLen(n \div 2)

\* the number of bits of a, and its bit i (the lowest is bit 1)
BitLen(a) ==
  IF a = <<>> THEN 0 ELSE (Len(a) - 1) * LimbBits + SmallLen(a[Len(a)])
BitAt(a, i) ==
  (Limb(a, (i - 1) \div LimbBits + 1) \div Pow2((i - 1) % LimbBits)) % 2

\* long division bit by bit, from the top bit of a down, until q holds
\* stop bits; q holds the quotient bits found so far (lowest first), r the
\* remainder so far
RECURSIVE DivLoop(_, _, _, _, _)
DivLoop(a, d, r, q, stop) ==
  IF Len(q) >= stop THEN [q |-> q, r |-> r]
  ELSE IF BigLess(BigAdd(BigAdd(r, r), Limbs(BitAt(a, BitLen(a) - Len(q)))), d)
    THEN DivLoop(a, d,
                 BigAdd(BigAdd(r, r), Limbs(BitAt(a, BitLen(a) - Len(q)))),
                 <<0>> \o q, stop)
    ELSE DivLoop(a, d,
                 BigSub(BigAdd(BigAdd(r, r),
                               Limbs(BitAt(a, BitLen(a) - Len(q)))), d),
                 <<1>> \o q, stop)

\* the division, LimbBits bits at a time
RECURSIVE DivFrom(_, _, _)
DivFrom(a, d, s) ==
  IF Len(s.q) >= BitLen(a) THEN s
  ELSE DivFrom(a, d, DivLoop(a, d, s.r, s.q,
                             Min(BitLen(a), Len(s.q) + LimbBits)))

RECURSIVE DigitOf(_, _, _)
DigitOf(bits, from, j) ==
  IF j > LimbBits \/ from + j - 1 > Len(bits) THEN 0
  ELSE bits[from + j - 1] * Pow2(j - 1) + DigitOf(bits, from, j + 1)

FromBits(bits) ==
  Trim([i \in 1..((Len(bits) + LimbBits - 1) \div LimbBits) |->
          DigitOf(bits, (i - 1) * LimbBits + 1, 1)])

\* the quotient q and the remainder r of a by d
DivResult(s) == [q |-> FromBits(s.q), r |-> s.r]
BigDiv(a, d) == DivResult(DivFrom(a, d, [q |-> <<>>, r |-> <<>>]))

NumberZero == [neg |-> FALSE, m |-> <<>>, e |-> 0]
NumberInfinity == [neg |-> FALSE, m |-> ShlBits(<<1>>, Precision - 1), e |-> 1024]
IsZero(x) == x.m = <<>>

\* the value (-1)^neg * m * 2^e with m of at most Precision bits
Normal(neg, m, e) ==
  IF m = <<>> THEN NumberZero
  ELSE [neg |-> neg, m |-> ShlBits(m, Precision - BitLen(m)),
        e |-> e - (Precision - BitLen(m))]

\* the upper Precision bits q of m, one more when the bits dropped are more
\* than half a unit of q, or exactly half and q is odd
RoundedUp(q, rest, half) ==
  IF BigLess(half, rest) \/ (rest = half /\ q[1] % 2 = 1)
    THEN BigAdd(q, <<1>>)
    ELSE q

\* round to nearest, ties to even, at Precision bits
Round(neg, m, e) ==
  IF BitLen(m) <= Precision THEN Normal(neg, m, e)
  ELSE Normal(neg,
              RoundedUp(ShrBits(m, BitLen(m) - Precision),
                        BigSub(m, ShlBits(ShrBits(m, BitLen(m) - Precision),
                                          BitLen(m) - Precision)),
                        ShlBits(<<1>>, BitLen(m) - Precision - 1)),
              e + BitLen(m) - Precision)

NumberOf(n) == Normal(n < 0, Limbs(IF n < 0 THEN -n ELSE n), 0)

Negate(x) == IF IsZero(x) THEN x ELSE [x EXCEPT !.neg = ~x.neg]

\* x + y
Plus(x, y) ==
  IF IsZero(x) THEN y
  ELSE IF IsZero(y) THEN x
  ELSE LET e == Min(x.e, y.e)
           a == ShlBits(x.m, x.e - e)
           b == ShlBits(y.m, y.e - e)
       IN  IF x.neg = y.neg THEN Round(x.neg, BigAdd(a, b), e)
           ELSE IF BigLess(a, b) THEN Round(y.neg, BigSub(b, a), e)
           ELSE Round(x.neg, BigSub(a, b), e)

\* x - y
Minus(x, y) == Plus(x, Negate(y))

\* x * y
Times(x, y) == Round(x.neg # y.neg, BigMul(x.m, y.m), x.e + y.e)

\* x / y for y # 0: the quotient to Precision + 4 bits or more, with one
\* more bit that records a remainder, then rounded
Over(x, y) ==
  IF IsZero(x) THEN NumberZero
  ELSE LET s == Precision + 3
           d == BigDiv(ShlBits(x.m, s), y.m)
       IN  Round(x.neg # y.neg,
                       BigAdd(BigAdd(d.q, d.q), Limbs(IF d.r = <<>> THEN 0 ELSE 1)),
                 x.e - y.e - s - 1)

Less(x, y) == Minus(x, y).neg
AtMost(x, y) == ~Less(y, x)
MathMax(x, y) == IF Less(x, y) THEN y ELSE x
MathMin(x, y) == IF Less(y, x) THEN y ELSE x

\* line 25
UnionAreaOfFirst(boxAArea, boxBArea, intersectionArea) == boxAArea
UnionArea(boxAArea, boxBArea, intersectionArea) ==
  Minus(Plus(boxAArea, boxBArea), intersectionArea)

\* lines 13-29 on JavaScript numbers; i / 0 is Infinity for i > 0 and NaN,
\* which line 28 turns into 0, for i = 0
calculateIoUNumber(boxA, boxB) ==
  LET xA == MathMax(boxA.x, boxB.x)
      yA == MathMax(boxA.y, boxB.y)
      xB == MathMin(Plus(boxA.x, boxA.width), Plus(boxB.x, boxB.width))
      yB == MathMin(Plus(boxA.y, boxA.height), Plus(boxB.y, boxB.height))
      intersectionArea == Times(MathMax(NumberZero, Minus(xB, xA)),
                                MathMax(NumberZero, Minus(yB, yA)))
      boxAArea == Times(boxA.width, boxA.height)
      boxBArea == Times(boxB.width, boxB.height)
      unionArea == UnionArea(boxAArea, boxBArea, intersectionArea)
  IN  IF AtMost(boxAArea, NumberZero) \/ AtMost(boxBArea, NumberZero)
        THEN NumberZero
      ELSE IF IsZero(unionArea)
        THEN IF IsZero(intersectionArea) THEN NumberZero ELSE NumberInfinity
      ELSE Over(intersectionArea, unionArea)

\* ------------------------------------------------------- Map operations
MapKeys(m) == {m[i].id : i \in 1..Len(m)}
MapHas(m, k) == \E i \in 1..Len(m) : m[i].id = k
MapGet(m, k) == m[CHOOSE i \in 1..Len(m) : m[i].id = k]
MapSet(m, e) ==
  IF MapHas(m, e.id)
    THEN [i \in 1..Len(m) |-> IF m[i].id = e.id THEN e ELSE m[i]]
    ELSE Append(m, e)

Entry(id, box, seen, label) ==
  [id |-> id, boundingBox |-> box, lastSeen |-> seen, geminiId |-> label]

\* -------------------------------------------------- the track reconciler
\* variant: the threshold itself counts as a match (>=)
AboveThresholdInclusive(iou) == ~Gt(IOU_THRESHOLD, iou)

\* line 203: iou > IOU_THRESHOLD
AboveThreshold(iou) == Gt(iou, IOU_THRESHOLD)

\* line 211: usedDetectionIndices.add(bestMatchIndex)
MarkUsed(used, index) == used \cup {index}

\* variant: the counter is read but not advanced
IncrementNever(n) == n

\* line 226: nextFaceIdRef.current++
Increment(n) == n + 1

\* variant: a track exactly MAX_INACTIVITY_MS old is dropped (<)
StillActiveStrict(currentTime, trackData) ==
  currentTime - trackData.lastSeen < MAX_INACTIVITY_MS

\* line 235: currentTime - trackData.lastSeen <= MAX_INACTIVITY_MS
StillActive(currentTime, trackData) ==
  currentTime - trackData.lastSeen <= MAX_INACTIVITY_MS

\* variant: a detection consumed by an earlier track stays a candidate
AlreadyUsedNever(used, index) == FALSE

\* line 201: usedDetectionIndices.has(index)
AlreadyUsed(used, index) == index \in used

\* variant: a detection scores only against a track of the same label
ScoreSameLabel(trackData, detection) ==
  IF trackData.geminiId = detection.personId
    THEN calculateIoU(trackData.boundingBox, detection.boundingBox)
    ELSE Zero

\* line 202: calculateIoU(trackData.boundingBox, detection.boundingBox)
Score(trackData, detection) ==
  calculateIoU(trackData.boundingBox, detection.boundingBox)

\* variant: the last candidate above the threshold wins
BetterAlways(iou, bestIoU) == TRUE

\* line 203: iou > bestIoU
Better(iou, bestIoU) == Gt(iou, bestIoU)

\* lines 198-207: the forEach over newDetections for one track
RECURSIVE BestMatch(_, _, _, _, _, _)
BestMatch(trackData, newDetections, used, index, bestMatchIndex, bestIoU) ==
  IF index > Len(newDetections) THEN bestMatchIndex
  ELSE IF AlreadyUsed(used, index)
    THEN BestMatch(trackData, newDetections, used, index + 1, bestMatchIndex,
                   bestIoU)
  ELSE LET iou == Score(trackData, newDetections[index])
       IN  IF Better(iou, bestIoU) /\ AboveThreshold(iou)
             THEN BestMatch(trackData, newDetections, used, index + 1, index,
                            iou)
             ELSE BestMatch(trackData, newDetections, used, index + 1,
                            bestMatchIndex, bestIoU)

\* variant: only the tracks that are not too old are offered detections
VisitedActive(tracks, currentTime) ==
  LET Active(trackData) == StillActive(currentTime, trackData)
  IN  SelectSeq(tracks, Active)

\* line 197: trackedFacesRef.current.entries(), every entry whatever its age
Visited(tracks, currentTime) == tracks

\* lines 197-213: one pass over the Track Table in insertion order
RECURSIVE MatchLoop(_, _, _, _, _)
MatchLoop(tracks, newDetections, i, pairs, used) ==
  IF i > Len(tracks)
    THEN [matchedPairs |-> pairs, usedDetectionIndices |-> used]
  ELSE LET best == BestMatch(tracks[i], newDetections, used, 1, NoIndex, Zero)
       IN  IF best # NoIndex
             THEN MatchLoop(tracks, newDetections, i + 1,
                            Append(pairs, [trackId |-> tracks[i].id,
                                           detectionIndex |-> best]),
                            MarkUsed(used, best))
             ELSE MatchLoop(tracks, newDetections, i + 1, pairs, used)

\* variant: the entry is keyed by the detection index, not the trackId
RefreshedEntryByIndex(pair, newDetections, currentTime) ==
  Entry(pair.detectionIndex, newDetections[pair.detectionIndex].boundingBox,
        currentTime, newDetections[pair.detectionIndex].personId)

\* lines 218-220: the entry written for a matched pair
RefreshedEntry(pair, newDetections, currentTime) ==
  Entry(pair.trackId, newDetections[pair.detectionIndex].boundingBox,
        currentTime, newDetections[pair.detectionIndex].personId)

\* variant: the identifier is not written on the detection
StampNever(pid, index, id) == pid

\* lines 221 and 230: detection.persistentId = id
Stamp(pid, index, id) == [pid EXCEPT ![index] = id]

\* lines 217-222: matched tracks are written first; pid is the annotation
RECURSIVE RefreshMatched(_, _, _, _, _, _)
RefreshMatched(pairs, newDetections, currentTime, k, newTrackedFaces, pid) ==
  IF k > Len(pairs) THEN [newTrackedFaces |-> newTrackedFaces, pid |-> pid]
  ELSE LET p == pairs[k]
       IN  RefreshMatched(pairs, newDetections, currentTime, k + 1,
             MapSet(newTrackedFaces,
                    RefreshedEntry(p, newDetections, currentTime)),
             Stamp(pid, p.detectionIndex, p.trackId))

\* lines 224-232: every unconsumed detection gets the next identifier
RECURSIVE CreateTracks(_, _, _, _, _, _, _)
CreateTracks(newDetections, used, currentTime, index, newTrackedFaces, pid, counter) ==
  IF index > Len(newDetections)
    THEN [newTrackedFaces |-> newTrackedFaces, pid |-> pid,
          nextFaceId |-> counter]
  ELSE IF index \in used
    THEN CreateTracks(newDetections, used, currentTime, index + 1,
                      newTrackedFaces, pid, counter)
  ELSE LET newId == counter
       IN  CreateTracks(newDetections, used, currentTime, index + 1,
             MapSet(newTrackedFaces,
                    Entry(newId, newDetections[index].boundingBox, currentTime,
                          newDetections[index].personId)),
             Stamp(pid, index, newId),
             Increment(counter))

\* variant: no unmatched track is carried forward
CarryForwardNothing(tracks, currentTime, i, newTrackedFaces) == newTrackedFaces

\* lines 234-238: unmatched tracks that are not too old are carried forward
RECURSIVE CarryForward(_, _, _, _)
CarryForward(tracks, currentTime, i, newTrackedFaces) ==
  IF i > Len(tracks) THEN newTrackedFaces
  ELSE IF StillActive(currentTime, tracks[i])
          /\ ~MapHas(newTrackedFaces, tracks[i].id)
    THEN CarryForward(tracks, currentTime, i + 1,
                      MapSet(newTrackedFaces, tracks[i]))
    ELSE CarryForward(tracks, currentTime, i + 1, newTrackedFaces)

\* the persistentId stamped on each detection (lines 221 and 230)
Annotate(newDetections, pid) ==
  [i \in 1..Len(newDetections) |->
     [boundingBox |-> newDetections[i].boundingBox,
      personId |-> newDetections[i].personId,
      persistentId |-> pid[i]]]

\* lines 215-240, given the result m of the matching loop
Rebuild(tracks, counter, newDetections, currentTime, m) ==
  LET noPid == [i \in 1..Len(newDetections) |-> 0]
      r == RefreshMatched(m.matchedPairs, newDetections, currentTime, 1,
                          <<>>, noPid)
      c == CreateTracks(newDetections, m.usedDetectionIndices, currentTime, 1,
                        r.newTrackedFaces, r.pid, counter)
  IN  [trackedFaces |-> CarryForward(tracks, currentTime, 1, c.newTrackedFaces),
       nextFaceId |-> c.nextFaceId,
       matchedPairs |-> m.matchedPairs,
       faces |-> Annotate(newDetections, c.pid)]

\* lines 188-240: the whole reconcile step
Reconcile(tracks, counter, newDetections, currentTime) ==
  Rebuild(tracks, counter, newDetections, currentTime,
          MatchLoop(Visited(tracks, currentTime), newDetections, 1, <<>>, {}))

\* ------------------------------------------- the attendance decision
\* variant: an attempt exactly one interval later is logged (>=)
ShouldLogInclusive(lastLog, id, currentTime) ==
  \/ id \notin DOMAIN lastLog
  \/ lastLog[id] = 0
  \/ currentTime - lastLog[id] >= ATTENDANCE_LOG_INTERVAL_MS

\* line 251: !lastLog || currentTime - lastLog > ATTENDANCE_LOG_INTERVAL_MS
ShouldLog(lastLog, id, currentTime) ==
  \/ id \notin DOMAIN lastLog
  \/ lastLog[id] = 0
  \/ currentTime - lastLog[id] > ATTENDANCE_LOG_INTERVAL_MS

\* variant: the registry is not updated on emission
SetLastLogNever(lastLog, id, currentTime) == lastLog

\* line 257: lastAttendanceLogRef.current.set(face.persistentId, currentTime)
SetLastLog(lastLog, id, currentTime) ==
  [k \in DOMAIN lastLog \cup {id} |->
     IF k = id THEN currentTime ELSE lastLog[k]]

\* variant: every tracked face counts as enrolled
EnrolledAlways(enrolled, id) == TRUE

\* lines 245-246: students.get(face.persistentId) is defined
Enrolled(enrolled, id) == id \in enrolled

\* lines 243-261: the forEach over the annotated detections
RECURSIVE LogAttendance(_, _, _, _, _, _)
LogAttendance(faces, enrolled, currentTime, index, log, lastLog) ==
  IF index > Len(faces) THEN [attendance |-> log, lastAttendanceLog |-> lastLog]
  ELSE LET face == faces[index]
       IN  IF face.persistentId # 0 /\ Enrolled(enrolled, face.persistentId)
              /\ ShouldLog(lastLog, face.persistentId, currentTime)
             THEN LogAttendance(faces, enrolled, currentTime, index + 1,
                    Append(log, [persistentId |-> face.persistentId,
                                 timestamp |-> currentTime]),
                    SetLastLog(lastLog, face.persistentId, currentTime))
             ELSE LogAttendance(faces, enrolled, currentTime, index + 1,
                                log, lastLog)

\* ------------------------------------------------------------------ state
VARIABLES
  now,                  \* the reading of Date.now()
  stream,               \* useState stream: TRUE when a MediaStream is held
  pendingStart,         \* handleStartCamera is awaiting getUserMedia
  srcObject,            \* videoRef.current.srcObject has been assigned
  isApiError,           \* useState isApiError
  isPausedForRateLimit, \* useState isPausedForRateLimit
  students,             \* useState students: the enrolled persistentIds
  attendance,           \* useState attendance: the emitted events, in order
  lastAttendanceLog,    \* lastAttendanceLogRef.current
  isProcessing,         \* isProcessing.current
  trackedFaces,         \* trackedFacesRef.current
  nextFaceId,           \* nextFaceIdRef.current
  detectionResult,      \* useState detectionResult.faces
  calls,                \* detectFacesAndHands calls awaiting their result
  intervalDue,          \* due time of the setInterval timer, or NoTimer
  timeouts,             \* due times of the pending setTimeout callbacks
  outcome,              \* kind of the last step taken
  matchedPairs,         \* matchedPairs of the last reconcile step
  replacedFaces,        \* the Track Table the last reconcile step read
                        \* (lines 197 and 234) and replaced (line 240)
  assigned,             \* identifiers created since the last start, in order
  rateLimitedAt,        \* time of the last rate-limit failure of the running
                        \* session, or NoTimer
  started,              \* the last step issued a detectFacesAndHands call
  scored                \* a call of calculateIoU on its own: the two boxes,
                        \* whether it has returned and the value returned,
                        \* or NotScored

vars == <<now, stream, pendingStart, srcObject, isApiError,
          isPausedForRateLimit, students, attendance,
          lastAttendanceLog, isProcessing, trackedFaces, nextFaceId,
          detectionResult, calls, intervalDue, timeouts, outcome,
          matchedPairs, replacedFaces, assigned, rateLimitedAt, started,
          scored>>

EmptyLog == [k \in {} |-> 0]
NotScored == <<>>

Init ==
  /\ now = 1000
  /\ stream = FALSE
  /\ pendingStart = FALSE
  /\ srcObject = FALSE
  /\ isApiError = FALSE
  /\ isPausedForRateLimit = FALSE
  /\ students = {}
  /\ attendance = <<>>
  /\ lastAttendanceLog = EmptyLog
  /\ isProcessing = FALSE
  /\ trackedFaces = <<>>
  /\ nextFaceId = InitialFaceId
  /\ detectionResult = <<>>
  /\ calls = <<>>
  /\ intervalDue = NoTimer
  /\ timeouts = <<>>
  /\ outcome = "init"
  /\ matchedPairs = <<>>
  /\ replacedFaces = <<>>
  /\ assigned = <<>>
  /\ rateLimitedAt = NoTimer
  /\ started = FALSE
  /\ scored = NotScored

\* ------------------------------------------------------ the analysis loop
\* variant: the guard forgets the busy flag
BusyIgnoringFlag(processing, hasStream) == ~hasStream

\* line 162: the guard of captureAndAnalyze
Busy(processing, hasStream) == processing \/ ~hasStream

\* variant: a cycle that skips its frame returns with the flag still set
BusyAfterSkippedFrameHeld(frame) == TRUE

\* lines 172-175 (zero dimensions) and 180, 299 (no drawing context): the
\* busy flag when the cycle function returns without a detection call
BusyAfterSkippedFrame(frame) == FALSE

\* lines 161-186: captureAndAnalyze up to the await.  closure holds the
\* students and isApiError of the render that created the callback.
CaptureStart(processing, hasStream, closure, frame, pending) ==
  IF Busy(processing, hasStream)
    THEN [isProcessing |-> processing, calls |-> pending, started |-> FALSE]
  ELSE IF frame # "ok"
    THEN [isProcessing |-> BusyAfterSkippedFrame(frame), calls |-> pending,
          started |-> FALSE]
  ELSE [isProcessing |-> TRUE, calls |-> Append(pending, closure),
        started |-> TRUE]

Closure(enrolled, apiError) == [students |-> enrolled, isApiError |-> apiError]

\* lines 302-318: the effect, re-run when stream, captureAndAnalyze or
\* isPausedForRateLimit changed.  The cleanup clears the previous interval.
AnalysisEffect(changed, paused, hasStream, processing, closure, frame, pending) ==
  IF ~changed
    THEN [isProcessing |-> processing, calls |-> pending, started |-> FALSE,
          intervalDue |-> intervalDue]
  ELSE IF paused \/ ~hasStream
    THEN [isProcessing |-> processing, calls |-> pending, started |-> FALSE,
          intervalDue |-> NoTimer]
  ELSE LET c == CaptureStart(processing, hasStream, closure, frame, pending)
       IN  [isProcessing |-> c.isProcessing, calls |-> c.calls,
            started |-> c.started, intervalDue |-> now + ANALYSIS_INTERVAL]

RemoveAt(q, k) == [i \in 1..(Len(q) - 1) |-> IF i < k THEN q[i] ELSE q[i + 1]]

\* identifiers given to the detections no track consumed, in list order
RECURSIVE CreatedIds(_, _, _)
CreatedIds(faces, pairs, index) ==
  IF index > Len(faces) THEN <<>>
  ELSE IF \E k \in 1..Len(pairs) : pairs[k].detectionIndex = index
    THEN CreatedIds(faces, pairs, index + 1)
    ELSE <<faces[index].persistentId>> \o CreatedIds(faces, pairs, index + 1)

\* the timer callbacks that were due before this instant have run: they are
\* queued ahead of whatever else happens now
TimersRun ==
  /\ intervalDue # NoTimer => intervalDue >= now
  /\ \A j \in 1..Len(timeouts) : timeouts[j] >= now

\* the timer callbacks that are due at this instant have run as well
TimersServed ==
  /\ intervalDue # NoTimer => intervalDue > now
  /\ \A j \in 1..Len(timeouts) : timeouts[j] > now

\* the clock moves on, once the timer callbacks that are due have run
Advance(t) ==
  /\ t > now
  /\ TimersServed
  /\ now' = t
  /\ outcome' = "other"
  /\ matchedPairs' = <<>>
  /\ replacedFaces' = <<>>
  /\ started' = FALSE
  /\ UNCHANGED <<scored, stream, pendingStart, srcObject, isApiError,
                 isPausedForRateLimit, students,
                 attendance, lastAttendanceLog, isProcessing, trackedFaces,
                 nextFaceId, detectionResult, calls, intervalDue, timeouts,
                 assigned, rateLimitedAt>>

\* variant: the counter survives the start
ResetCounterKept(n) == n

\* line 77: nextFaceIdRef.current = 1
ResetCounter(n) == InitialFaceId

\* variant: a start empties the Last-Logged Registry
RegistryOnStartCleared(log) == EmptyLog

\* lines 72-77: lastAttendanceLogRef is not among the things a start resets
RegistryOnStart(log) == log

\* lines 72-77: handleStartCamera up to the await of getUserMedia.  The
\* button runs it only while stream is null (line 384).
handleStartCamera ==
  /\ ~stream
  /\ TimersRun
  /\ ~pendingStart
  /\ isPausedForRateLimit' = FALSE
  /\ detectionResult' = <<>>
  /\ trackedFaces' = <<>>
  /\ nextFaceId' = ResetCounter(nextFaceId)
  /\ pendingStart' = TRUE
  /\ assigned' = <<>>
  /\ rateLimitedAt' = NoTimer
  /\ outcome' = "start"
  /\ matchedPairs' = <<>>
  /\ replacedFaces' = <<>>
  /\ started' = FALSE
  /\ lastAttendanceLog' = RegistryOnStart(lastAttendanceLog)
  /\ UNCHANGED <<scored, now, stream, srcObject, isApiError, students,
                 attendance, isProcessing, calls, intervalDue, timeouts>>

\* lines 88-99: getUserMedia resolved; the new stream re-runs the effect
getUserMediaResolved(frame) ==
  /\ pendingStart
  /\ TimersRun
  /\ LET e == AnalysisEffect(TRUE, isPausedForRateLimit, TRUE, isProcessing,
                             Closure(students, isApiError), frame, calls)
     IN  /\ isProcessing' = e.isProcessing
         /\ calls' = e.calls
         /\ intervalDue' = e.intervalDue
         /\ started' = e.started
  /\ pendingStart' = FALSE
  /\ stream' = TRUE
  /\ srcObject' = TRUE
  /\ outcome' = "other"
  /\ matchedPairs' = <<>>
  /\ replacedFaces' = <<>>
  /\ UNCHANGED <<scored, now, isApiError, isPausedForRateLimit, students, attendance, lastAttendanceLog,
                 trackedFaces, nextFaceId, detectionResult, timeouts,
                 assigned, rateLimitedAt>>

\* lines 80-86 and 100-134: no camera
getUserMediaRejected ==
  /\ pendingStart
  /\ TimersRun
  /\ pendingStart' = FALSE
  /\ outcome' = "other"
  /\ matchedPairs' = <<>>
  /\ replacedFaces' = <<>>
  /\ started' = FALSE
  /\ UNCHANGED <<scored, now, stream, srcObject, isApiError, isPausedForRateLimit,
                 students, attendance, lastAttendanceLog,
                 isProcessing, trackedFaces, nextFaceId, detectionResult,
                 calls, intervalDue, timeouts, assigned, rateLimitedAt>>

\* lines 137-146: handleStopCamera; the effect cleanup clears the interval
handleStopCamera ==
  /\ stream
  /\ TimersRun
  /\ stream' = FALSE
  /\ detectionResult' = <<>>
  /\ trackedFaces' = <<>>
  /\ isPausedForRateLimit' = FALSE
  /\ intervalDue' = NoTimer
  /\ rateLimitedAt' = NoTimer
  /\ outcome' = "stop"
  /\ matchedPairs' = <<>>
  /\ replacedFaces' = <<>>
  /\ started' = FALSE
  /\ UNCHANGED <<scored, now, pendingStart, srcObject, isApiError, students, attendance, lastAttendanceLog,
                 isProcessing, nextFaceId, calls, timeouts, assigned>>

\* lines 148-155 and 375: handleRegisterStudent for a face shown by the
\* overlay (drawn while streaming) followed by the modal's onSave, which
\* calls handleSaveStudent with that face's persistentId.  The new students
\* Map recreates captureAndAnalyze, which re-runs the effect.
handleSaveStudent(index, frame) ==
  /\ stream
  /\ TimersRun
  /\ index \in 1..Len(detectionResult)
  /\ detectionResult[index].persistentId # 0
  /\ students' = students \cup {detectionResult[index].persistentId}
  /\ LET e == AnalysisEffect(TRUE, isPausedForRateLimit, stream, isProcessing,
                             Closure(students', isApiError), frame, calls)
     IN  /\ isProcessing' = e.isProcessing
         /\ calls' = e.calls
         /\ intervalDue' = e.intervalDue
         /\ started' = e.started
  /\ outcome' = "save"
  /\ matchedPairs' = <<>>
  /\ replacedFaces' = <<>>
  /\ UNCHANGED <<scored, now, stream, pendingStart, srcObject, isApiError,
                 isPausedForRateLimit, attendance, lastAttendanceLog,
                 trackedFaces, nextFaceId, detectionResult, timeouts,
                 assigned, rateLimitedAt>>

\* line 310: the interval timer calls captureAndAnalyze
Tick(frame) ==
  /\ intervalDue # NoTimer
  /\ now >= intervalDue
  /\ LET c == CaptureStart(isProcessing, stream,
                           Closure(students, isApiError), frame, calls)
     IN  /\ isProcessing' = c.isProcessing
         /\ calls' = c.calls
         /\ started' = c.started
  /\ intervalDue' = now + ANALYSIS_INTERVAL
  /\ outcome' = "tick"
  /\ matchedPairs' = <<>>
  /\ replacedFaces' = <<>>
  /\ UNCHANGED <<scored, now, stream, pendingStart, srcObject, isApiError,
                 isPausedForRateLimit, students,
                 attendance, lastAttendanceLog, trackedFaces, nextFaceId,
                 detectionResult, timeouts, assigned, rateLimitedAt>>

\* variant: the catch block clears the Track Table with the overlay
AbandonCycleClearing(tracks, counter, log, lastLog) ==
  [trackedFaces |-> <<>>, nextFaceId |-> counter,
   attendance |-> log, lastAttendanceLog |-> lastLog]

\* lines 269-296: the catch block never touches the Track Table, the
\* counter, the attendance list or the registry
AbandonCycle(tracks, counter, log, lastLog) ==
  [trackedFaces |-> tracks, nextFaceId |-> counter,
   attendance |-> log, lastAttendanceLog |-> lastLog]

\* lines 186-268 and 299: the detection call k returns a face list
ResolveSuccess(k, newDetections, frame) ==
  /\ k \in 1..Len(calls)
  /\ TimersRun
  /\ \E r \in {Reconcile(trackedFaces, nextFaceId, newDetections, now)} :
       /\ r.nextFaceId <= MaxId + 1
       /\ trackedFaces' = r.trackedFaces
       /\ nextFaceId' = r.nextFaceId
       /\ matchedPairs' = r.matchedPairs
       /\ replacedFaces' = trackedFaces
       /\ detectionResult' = r.faces
       /\ assigned' = assigned \o CreatedIds(r.faces, r.matchedPairs, 1)
       /\ \E a \in {LogAttendance(r.faces, calls[k].students, now, 1,
                                  attendance, lastAttendanceLog)} :
            /\ attendance' = a.attendance
            /\ lastAttendanceLog' = a.lastAttendanceLog
  /\ isApiError' = IF calls[k].isApiError THEN FALSE ELSE isApiError
  /\ \E e \in {AnalysisEffect(isApiError' # isApiError, isPausedForRateLimit,
                              stream, FALSE, Closure(students, isApiError'),
                              frame, RemoveAt(calls, k))} :
       /\ isProcessing' = e.isProcessing
       /\ calls' = e.calls
       /\ intervalDue' = e.intervalDue
       /\ started' = e.started
  /\ outcome' = "success"
  /\ UNCHANGED <<scored, now, stream, pendingStart, srcObject, isPausedForRateLimit,
                 students, timeouts, rateLimitedAt>>

\* lines 269-287, 295 and 299: the detection call k fails with RATE_LIMIT
ResolveRateLimit(k) ==
  /\ k \in 1..Len(calls)
  /\ TimersRun
  /\ Len(timeouts) < MaxTimeouts
  /\ LET f == AbandonCycle(trackedFaces, nextFaceId, attendance,
                           lastAttendanceLog)
         e == AnalysisEffect(~isApiError \/ ~isPausedForRateLimit, TRUE,
                             stream, FALSE, Closure(students, TRUE), "ok",
                             RemoveAt(calls, k))
     IN  /\ trackedFaces' = f.trackedFaces
         /\ nextFaceId' = f.nextFaceId
         /\ attendance' = f.attendance
         /\ lastAttendanceLog' = f.lastAttendanceLog
         /\ isProcessing' = e.isProcessing
         /\ calls' = e.calls
         /\ intervalDue' = e.intervalDue
         /\ started' = e.started
  /\ isApiError' = TRUE
  /\ isPausedForRateLimit' = TRUE
  /\ timeouts' = Append(timeouts, now + RATE_LIMIT_PAUSE_MS)
  /\ detectionResult' = <<>>
  /\ rateLimitedAt' = IF stream THEN now ELSE NoTimer
  /\ outcome' = "rateLimit"
  /\ matchedPairs' = <<>>
  /\ replacedFaces' = <<>>
  /\ UNCHANGED <<scored, now, stream, pendingStart, srcObject, students, assigned>>

\* lines 269-271, 288-295 and 299: the detection call k fails otherwise
ResolveFailure(k, frame) ==
  /\ k \in 1..Len(calls)
  /\ TimersRun
  /\ LET f == AbandonCycle(trackedFaces, nextFaceId, attendance,
                           lastAttendanceLog)
         e == AnalysisEffect(~isApiError, isPausedForRateLimit, stream, FALSE,
                             Closure(students, TRUE), frame,
                             RemoveAt(calls, k))
     IN  /\ trackedFaces' = f.trackedFaces
         /\ nextFaceId' = f.nextFaceId
         /\ attendance' = f.attendance
         /\ lastAttendanceLog' = f.lastAttendanceLog
         /\ isProcessing' = e.isProcessing
         /\ calls' = e.calls
         /\ intervalDue' = e.intervalDue
         /\ started' = e.started
  /\ isApiError' = TRUE
  /\ detectionResult' = <<>>
  /\ outcome' = "failed"
  /\ matchedPairs' = <<>>
  /\ replacedFaces' = <<>>
  /\ UNCHANGED <<scored, now, stream, pendingStart, srcObject, isPausedForRateLimit,
                 students, timeouts, assigned,
                 rateLimitedAt>>

\* variant: the callback leaves the pause in place
PauseAfterCooldownKept(paused) == paused

\* lines 281 and 285: setIsPausedForRateLimit(false)
PauseAfterCooldown(paused) == FALSE

\* lines 279-287: the cooldown callback j set by a rate-limit failure
TimeoutFires(j, frame) ==
  /\ j \in 1..Len(timeouts)
  /\ now >= timeouts[j]
  /\ isPausedForRateLimit' = PauseAfterCooldown(isPausedForRateLimit)
  /\ LET apiError == IF srcObject THEN FALSE ELSE isApiError
         e == AnalysisEffect(isPausedForRateLimit' # isPausedForRateLimit
                               \/ apiError # isApiError,
                             isPausedForRateLimit', stream, isProcessing,
                             Closure(students, apiError), frame, calls)
     IN  /\ isApiError' = apiError
         /\ isProcessing' = e.isProcessing
         /\ calls' = e.calls
         /\ intervalDue' = e.intervalDue
         /\ started' = e.started
  /\ timeouts' = RemoveAt(timeouts, j)
  /\ outcome' = "timeout"
  /\ matchedPairs' = <<>>
  /\ replacedFaces' = <<>>
  /\ UNCHANGED <<scored, now, stream, pendingStart, srcObject, students, attendance, lastAttendanceLog,
                 trackedFaces, nextFaceId, detectionResult, assigned,
                 rateLimitedAt>>

\* the camera button and the getUserMedia request
Camera ==
  \/ handleStartCamera
  \/ \E frame \in Frames : getUserMediaResolved(frame)
  \/ getUserMediaRejected
  \/ handleStopCamera

\* enrolment of a displayed face
Enrol ==
  \E index \in 1..MaxDets, frame \in Frames : handleSaveStudent(index, frame)

\* the interval timer and the detection calls that return a face list
Cycle(lists) ==
  \/ \E frame \in Frames : Tick(frame)
  \/ \E k \in 1..Len(calls), newDetections \in lists, frame \in Frames :
       ResolveSuccess(k, newDetections, frame)

\* the detection calls that fail, and the cooldown callbacks
Failure ==
  \/ \E k \in 1..Len(calls) : ResolveRateLimit(k)
  \/ \E k \in 1..Len(calls), frame \in Frames : ResolveFailure(k, frame)
  \/ \E j \in 1..Len(timeouts), frame \in Frames : TimeoutFires(j, frame)

\* The capture session: camera, timers, detection results and failures,
\* with nobody enrolled.
SessionInstants == {1000, 21001, 62001}
SessionLists ==
  UNION {[1..n -> [boundingBox : {BoxA, BoxEdge, BoxNear}, personId : Labels]] :
           n \in 0..MaxDets}

Next ==
  \/ \E t \in SessionInstants : Advance(t)
  \/ Camera
  \/ Cycle(SessionLists)
  \/ Failure

Spec == Init /\ [][Next]_vars

\* The capture session with enrolment: every action, one face position.
AttendanceInstants == {1000, 1001, 301001}
AttendanceLists ==
  UNION {[1..n -> [boundingBox : {BoxA}, personId : Labels]] :
           n \in 0..MaxDets}

NextAttendance ==
  \/ \E t \in AttendanceInstants : Advance(t)
  \/ Camera
  \/ Enrol
  \/ Cycle(AttendanceLists)
  \/ Failure

SpecAttendance == Init /\ [][NextAttendance]_vars

\* One reconcile step from every Track Table the loop can hold while a
\* detection call is outstanding.
ReconcileInstants == {1000, 1001, 21001}

Tables(t) ==
  LET entries == [id : 1..MaxId, boundingBox : Boxes,
                  lastSeen : {u \in ReconcileInstants : u <= t},
                  geminiId : Labels]
  IN  {m \in UNION {[1..n -> entries] : n \in 0..MaxId} :
         \A i, j \in 1..Len(m) : i # j => m[i].id # m[j].id}

InitReconcile ==
  /\ now \in ReconcileInstants
  /\ trackedFaces \in Tables(now)
  /\ nextFaceId \in 1..(MaxId + 1)
  /\ \A i \in 1..Len(trackedFaces) : trackedFaces[i].id < nextFaceId
  /\ assigned = [i \in 1..(nextFaceId - 1) |-> i]
  /\ stream = TRUE
  /\ pendingStart = FALSE
  /\ srcObject = TRUE
  /\ isApiError = FALSE
  /\ isPausedForRateLimit = FALSE
  /\ students = {}
  /\ attendance = <<>>
  /\ lastAttendanceLog = EmptyLog
  /\ isProcessing = TRUE
  /\ calls = <<Closure({}, FALSE)>>
  /\ detectionResult = <<>>
  /\ intervalDue = now + ANALYSIS_INTERVAL
  /\ timeouts = <<>>
  /\ outcome = "tick"
  /\ matchedPairs = <<>>
  /\ replacedFaces = <<>>
  /\ rateLimitedAt = NoTimer
  /\ started = FALSE
  /\ scored = NotScored

NextReconcile ==
  \E newDetections \in DetectionLists, frame \in Frames :
    ResolveSuccess(1, newDetections, frame)

SpecReconcile == InitReconcile /\ [][NextReconcile]_vars

\* One reconcile step from every Track Table whose regions may have no
\* area: no height, or no width.
BoxFlat == Box(0, 0, 7, 0)
BoxLine == Box(0, 0, 0, 2)
DegenerateBoxes == {BoxA, BoxFlat, BoxLine}
DegenerateLists ==
  UNION {[1..n -> [boundingBox : DegenerateBoxes, personId : Labels]] :
           n \in 0..MaxDets}

DegenerateTables(t) ==
  LET entries == [id : 1..MaxId, boundingBox : DegenerateBoxes,
                  lastSeen : {u \in ReconcileInstants : u <= t},
                  geminiId : Labels]
  IN  {m \in UNION {[1..n -> entries] : n \in 0..MaxId} :
         \A i, j \in 1..Len(m) : i # j => m[i].id # m[j].id}

InitDegenerate ==
  /\ now \in ReconcileInstants
  /\ trackedFaces \in DegenerateTables(now)
  /\ nextFaceId \in 1..(MaxId + 1)
  /\ \A i \in 1..Len(trackedFaces) : trackedFaces[i].id < nextFaceId
  /\ assigned = [i \in 1..(nextFaceId - 1) |-> i]
  /\ stream = TRUE
  /\ pendingStart = FALSE
  /\ srcObject = TRUE
  /\ isApiError = FALSE
  /\ isPausedForRateLimit = FALSE
  /\ students = {}
  /\ attendance = <<>>
  /\ lastAttendanceLog = EmptyLog
  /\ isProcessing = TRUE
  /\ calls = <<Closure({}, FALSE)>>
  /\ detectionResult = <<>>
  /\ intervalDue = now + ANALYSIS_INTERVAL
  /\ timeouts = <<>>
  /\ outcome = "tick"
  /\ matchedPairs = <<>>
  /\ replacedFaces = <<>>
  /\ rateLimitedAt = NoTimer
  /\ started = FALSE
  /\ scored = NotScored

NextDegenerate ==
  \E newDetections \in DegenerateLists, frame \in Frames :
    ResolveSuccess(1, newDetections, frame)

SpecDegenerate == InitDegenerate /\ [][NextDegenerate]_vars

\* calculateIoU called on its own, on boxes whose coordinates are JavaScript
\* numbers read from decimal literals (n/d is the literal as JSON.parse
\* reads it: the binary64 value nearest to it).
Literal(n, d) == Over(NumberOf(n), NumberOf(d))

NumberBoxes ==
  [x : {NumberOf(0), Literal(1, 10), Literal(3, 10)},
   y : {NumberOf(0), Literal(1, 2)},
   width : {Literal(-1, 5), NumberOf(0), Literal(1, 5), Literal(2, 5)},
   height : {NumberOf(-1), NumberOf(0), Literal(1, 2), NumberOf(1)}]

\* a call of calculateIoU on its own: the two boxes are the arguments, the
\* result is there once the call has returned
InitNumber ==
  /\ now = 1000
  /\ stream = FALSE
  /\ pendingStart = FALSE
  /\ srcObject = FALSE
  /\ isApiError = FALSE
  /\ isPausedForRateLimit = FALSE
  /\ students = {}
  /\ attendance = <<>>
  /\ lastAttendanceLog = EmptyLog
  /\ isProcessing = FALSE
  /\ trackedFaces = <<>>
  /\ nextFaceId = InitialFaceId
  /\ detectionResult = <<>>
  /\ calls = <<>>
  /\ intervalDue = NoTimer
  /\ timeouts = <<>>
  /\ outcome = "init"
  /\ matchedPairs = <<>>
  /\ replacedFaces = <<>>
  /\ assigned = <<>>
  /\ rateLimitedAt = NoTimer
  /\ started = FALSE
  /\ scored \in [boxA : NumberBoxes, boxB : NumberBoxes,
                 returned : {FALSE}, iou : {NumberZero}]

calculateIoUCall ==
  /\ scored # NotScored
  /\ ~scored.returned
  /\ scored' = [scored EXCEPT
                  !.returned = TRUE,
                  !.iou = calculateIoUNumber(scored.boxA, scored.boxB)]
  /\ UNCHANGED <<now, stream, pendingStart, srcObject, isApiError,
                 isPausedForRateLimit, students, attendance,
                 lastAttendanceLog, isProcessing, trackedFaces, nextFaceId,
                 detectionResult, calls, intervalDue, timeouts, outcome,
                 matchedPairs, replacedFaces, assigned, rateLimitedAt,
                 started>>

NextNumber == calculateIoUCall

SpecNumber == InitNumber /\ [][NextNumber]_vars

Returned == scored # NotScored /\ scored.returned

\* ------------------------------------------------------------ properties
Matched(pairs, trackId) == \E k \in 1..Len(pairs) : pairs[k].trackId = trackId
Position(m, id) == CHOOSE i \in 1..Len(m) : m[i].id = id
EntriesOf(m, id) == {i \in 1..Len(m) : m[i].id = id}

\* C1: in a successful cycle every track matched to a detection stays in the
\* Track Table under its trackId (once), with the detection's region and
\* lastSeen = now, and the detection carries that trackId.
C1_MatchedTrackRefreshed ==
  [][outcome' = "success" =>
       \A k \in 1..Len(matchedPairs') :
         LET p == matchedPairs'[k]
             d == detectionResult'[p.detectionIndex]
         IN  /\ MapHas(trackedFaces, p.trackId)
             /\ Cardinality(EntriesOf(trackedFaces', p.trackId)) = 1
             /\ MapGet(trackedFaces', p.trackId).boundingBox = d.boundingBox
             /\ MapGet(trackedFaces', p.trackId).lastSeen = now'
             /\ d.persistentId = p.trackId]_vars

C1_Witness ==
  /\ outcome = "success"
  /\ \E k \in 1..Len(matchedPairs) :
       /\ MapGet(trackedFaces, matchedPairs[k].trackId).lastSeen = now
       /\ detectionResult[matchedPairs[k].detectionIndex].persistentId
            = matchedPairs[k].trackId
       /\ matchedPairs[k].trackId # matchedPairs[k].detectionIndex

\* C2: within one capture session (since the last start) the identifiers
\* created are pairwise distinct and strictly increasing in creation order,
\* every key of the Track Table is one of them, and so the identifier of a
\* dropped track is never given to another track.
C2_IdentifiersIncrease ==
  /\ \A i, j \in 1..Len(assigned) : i < j => assigned[i] < assigned[j]
  /\ \A i \in 1..Len(assigned) : assigned[i] < nextFaceId
  /\ \A i, j \in 1..Len(trackedFaces) :
       i # j => trackedFaces[i].id # trackedFaces[j].id
  /\ \A i \in 1..Len(trackedFaces) :
       \E n \in 1..Len(assigned) : assigned[n] = trackedFaces[i].id

C2_Witness ==
  /\ outcome = "success"
  /\ Len(assigned) >= 2
  /\ ~MapHas(trackedFaces, assigned[1])
  /\ MapHas(trackedFaces, assigned[Len(assigned)])
  /\ MapGet(trackedFaces, assigned[Len(assigned)]).lastSeen = now

\* C3: within one reconcile step no detection index is matched to two tracks
\* and no track is matched to two detections.
C3_MatchesInjective ==
  \A i, j \in 1..Len(matchedPairs) :
    i # j => /\ matchedPairs[i].trackId # matchedPairs[j].trackId
             /\ matchedPairs[i].detectionIndex # matchedPairs[j].detectionIndex

C3_Witness ==
  /\ outcome = "success"
  /\ Len(matchedPairs) = 2
  /\ detectionResult[1].boundingBox = detectionResult[2].boundingBox

\* C4: at most one detection call is outstanding, and the busy flag is set
\* exactly while it is; while the flag is set, a timer tick or an effect
\* invocation of the cycle function starts no call and reconciles nothing,
\* a skipped tick changes nothing but the timer, and the completion of a
\* call that changes no effect dependency starts no call (nothing was queued).
Resolutions == {"success", "rateLimit", "failed"}

BusyStep ==
  /\ (isProcessing /\ outcome' \notin Resolutions) =>
       /\ calls' = calls
       /\ ~started'
       /\ matchedPairs' = <<>>
       /\ nextFaceId' = nextFaceId \/ outcome' = "start"
  /\ (isProcessing /\ outcome' = "tick") =>
       UNCHANGED <<calls, isProcessing, trackedFaces, nextFaceId,
                   detectionResult, attendance, lastAttendanceLog>>
  /\ (outcome' = "success" /\ isApiError' = isApiError) => ~started'

C4_OneCycleInFlight ==
  /\ [](Len(calls) <= 1 /\ (isProcessing <=> calls # <<>>))
  /\ [][BusyStep]_vars

C4_Witness ==
  /\ outcome = "tick"
  /\ isProcessing
  /\ ~started
  /\ Len(calls) = 1

\* C5: in a successful cycle, for every detection whose trackId is enrolled
\* in the students map the cycle holds, an event is appended if and only if
\* the registry has no entry for the trackId or now - entry > 300000; an
\* emission stamps now on the event and on the registry entry, and every
\* other registry entry is left as it was.
NewEvents == SubSeq(attendance', Len(attendance) + 1, Len(attendance'))
Emitted(id) == \E n \in 1..Len(NewEvents) : NewEvents[n].persistentId = id
Shown(faces) == {faces[i].persistentId : i \in 1..Len(faces)}

LastEventAt(id) ==
  LET at == {n \in 1..Len(attendance) : attendance[n].persistentId = id}
  IN  attendance[CHOOSE n \in at : \A m \in at : m <= n].timestamp
HasEvent(id) == \E n \in 1..Len(attendance) : attendance[n].persistentId = id
NewEventsOf(id) == {n \in 1..Len(NewEvents) : NewEvents[n].persistentId = id}

C6_EventsFiveMinutesApart ==
  /\ [](\A i, j \in 1..Len(attendance) :
          (i < j /\ attendance[i].persistentId = attendance[j].persistentId)
            => attendance[j].timestamp - attendance[i].timestamp > 300000)
  /\ [][outcome' = "success" =>
          \A id \in Shown(detectionResult') \cap calls[1].students :
            HasEvent(id) =>
              IF now' - LastEventAt(id) <= 300000
                THEN /\ NewEventsOf(id) = {}
                     /\ lastAttendanceLog'[id] = lastAttendanceLog[id]
                ELSE /\ Cardinality(NewEventsOf(id)) = 1
                     /\ \A n \in NewEventsOf(id) : NewEvents[n].timestamp = now'
      ]_vars

C6_Witness ==
  /\ outcome = "success"
  /\ \E i, j \in 1..Len(attendance) :
       /\ attendance[i].persistentId = attendance[j].persistentId
       /\ attendance[j].timestamp - attendance[i].timestamp = 300001
       /\ attendance[j].timestamp = now
  /\ \E b \in Shown(detectionResult) \cap students :
       /\ b \in DOMAIN lastAttendanceLog
       /\ now - lastAttendanceLog[b] = 300000

\* C7: in a successful cycle an unmatched pre-existing track is absent from
\* the new table when now - lastSeen > 20000 and present, unchanged, when
\* now - lastSeen <= 20000.
C7_Expiry ==
  [][outcome' = "success" =>
       \A i \in 1..Len(trackedFaces) :
         LET t == trackedFaces[i]
         IN  ~Matched(matchedPairs', t.id) =>
               IF now' - t.lastSeen > 20000
                 THEN ~MapHas(trackedFaces', t.id)
                 ELSE /\ Cardinality(EntriesOf(trackedFaces', t.id)) = 1
                      /\ MapGet(trackedFaces', t.id) = t]_vars

C7_Witness ==
  /\ outcome = "success"
  /\ \E i \in 1..Len(trackedFaces) :
       /\ now - trackedFaces[i].lastSeen = 20000
       /\ ~Matched(matchedPairs, trackedFaces[i].id)
  /\ \E id \in 1..(nextFaceId - 1) : ~MapHas(trackedFaces, id)

\* C8: a matched pair always scores strictly above 0.4 (2/5), so a pair that
\* scores exactly 0.4 is not matched; and a track for which some detection
\* not taken by an earlier track scores strictly above 0.4 is matched, to
\* one of those detections that no other of them outscores.
Above04(score) == 5 * score.num > 2 * score.den
Exactly04(score) == 5 * score.num = 2 * score.den

C8_StrictThreshold ==
  [][outcome' = "success" =>
       /\ \A k \in 1..Len(matchedPairs') :
            Above04(calculateIoU(
              MapGet(trackedFaces, matchedPairs'[k].trackId).boundingBox,
              detectionResult'[matchedPairs'[k].detectionIndex].boundingBox))
       /\ \A i \in 1..Len(trackedFaces) :
            LET t == trackedFaces[i]
                score(j) == calculateIoU(t.boundingBox,
                                         detectionResult'[j].boundingBox)
                taken == {matchedPairs'[k].detectionIndex :
                            k \in {n \in 1..Len(matchedPairs') :
                                     Position(trackedFaces,
                                              matchedPairs'[n].trackId) < i}}
                open == {j \in 1..Len(detectionResult') \ taken :
                           Above04(score(j))}
            IN  open # {} =>
                  \E k \in 1..Len(matchedPairs') :
                    /\ matchedPairs'[k].trackId = t.id
                    /\ matchedPairs'[k].detectionIndex \in open
                    /\ \A j \in open :
                         ~Gt(score(j), score(matchedPairs'[k].detectionIndex))
      ]_vars

C8_Witness ==
  /\ outcome = "success"
  /\ matchedPairs = <<>>
  /\ \E i \in 1..Len(trackedFaces), j \in 1..Len(detectionResult) :
       /\ trackedFaces[i].lastSeen < now
       /\ Exactly04(calculateIoU(trackedFaces[i].boundingBox,
                                 detectionResult[j].boundingBox))
       /\ detectionResult[j].persistentId # trackedFaces[i].id

\* C9: a cycle whose detection call fails, with the rate-limit error or any
\* other, leaves the Track Table, the counter, the attendance list and the
\* registry as they were and reconciles nothing.
C9_FailedCycleChangesNothing ==
  [][outcome' \in {"rateLimit", "failed"} =>
       /\ UNCHANGED <<trackedFaces, nextFaceId, attendance, lastAttendanceLog,
                      assigned>>
       /\ matchedPairs' = <<>>]_vars

C9_Witness ==
  /\ outcome = "failed"
  /\ timeouts # <<>>
  /\ trackedFaces # <<>>
  /\ nextFaceId > InitialFaceId
  /\ attendance # <<>>

\* C10: once a detection call of the running session has failed with the
\* rate-limit error, no detection call is started in that session until
\* 61000 ms have passed since the failure.
C10_CooldownRespected ==
  (started /\ rateLimitedAt # NoTimer) => now - rateLimitedAt >= 61000

\* The running capture with a camera that delivers frames: the clock and
\* the timer callbacks are scheduled fairly (the event loop runs a callback
\* that is due; time passes).
LiveInstants == {1000, 62000, 123000}
LiveFrames == {"ok"}
LiveLists ==
  UNION {[1..n -> [boundingBox : {BoxA}, personId : Labels]] : n \in 0..1}

LiveClock == \E t \in LiveInstants : Advance(t)
LiveCooldown == \E j \in 1..Len(timeouts), frame \in LiveFrames : TimeoutFires(j, frame)
LiveTick == \E frame \in LiveFrames : Tick(frame)

NextLive ==
  \/ LiveClock
  \/ handleStartCamera
  \/ \E frame \in LiveFrames : getUserMediaResolved(frame)
  \/ getUserMediaRejected
  \/ handleStopCamera
  \/ LiveTick
  \/ \E k \in 1..Len(calls), newDetections \in LiveLists, frame \in LiveFrames :
       ResolveSuccess(k, newDetections, frame)
  \/ \E k \in 1..Len(calls) : ResolveRateLimit(k)
  \/ \E k \in 1..Len(calls), frame \in LiveFrames : ResolveFailure(k, frame)
  \/ LiveCooldown

SpecLive ==
  /\ Init
  /\ [][NextLive]_vars
  /\ WF_vars(LiveClock)
  /\ WF_vars(LiveCooldown)
  /\ WF_vars(LiveTick)

\* C11: while capture keeps running, a rate-limit pause always ends without
\* user action: the pause is cleared, the interval timer is armed again and
\* a detection call is started.  (Stated for the pauses whose cooldown ends
\* within the instants of the clock.)
LastInstant == CHOOSE t \in LiveInstants : \A u \in LiveInstants : u <= t

C11_PauseEnds ==
  (stream /\ isPausedForRateLimit /\ now < LastInstant)
    ~> (~stream \/ (~isPausedForRateLimit /\ started /\ intervalDue # NoTimer))

C11_Witness ==
  /\ outcome = "timeout"
  /\ stream
  /\ ~isPausedForRateLimit
  /\ started
  /\ rateLimitedAt # NoTimer
  /\ now - rateLimitedAt = 61000

\* C12: in the state right after the stop action the Track Table is empty
\* and the next-identifier counter is back at its initial value 1.
C12_StopResetsCounter ==
  outcome = "stop" => (trackedFaces = <<>> /\ nextFaceId = 1)

\* C13: a stop cancels every pending cooldown timer: right after the stop no
\* cooldown callback is pending, so none scheduled before it can fire later.
C13_StopCancelsCooldown ==
  outcome = "stop" => timeouts = <<>>

\* C14: a start leaves the Track Table empty and the counter at its initial
\* value, and the first track created after a start has trackId 1.
C14_RestartBeginsAtOne ==
  /\ outcome = "start" => (trackedFaces = <<>> /\ nextFaceId = 1)
  /\ assigned # <<>> => assigned[1] = 1

C14_Witness ==
  /\ outcome = "success"
  /\ stream
  /\ timeouts # <<>>
  /\ rateLimitedAt = NoTimer
  /\ assigned = <<1>>
  /\ Len(detectionResult) = 1
  /\ detectionResult[1].persistentId = 1

\* C15: in every reconcile step the tracks choose in ascending trackId order:
\* when a track is matched to a detection against which an older track
\* (smaller trackId) also scores above 0.4, the older track chose first, so
\* it is matched to a detection it scores at least as high against.
C15_OlderTracksPickFirst ==
  [][outcome' = "success" =>
       \A k \in 1..Len(matchedPairs'), i \in 1..Len(trackedFaces) :
         LET older == trackedFaces[i]
             score(j) == calculateIoU(older.boundingBox,
                                      detectionResult'[j].boundingBox)
             d == matchedPairs'[k].detectionIndex
         IN  (older.id < matchedPairs'[k].trackId /\ Above04(score(d))) =>
               \E n \in 1..Len(matchedPairs') :
                 /\ matchedPairs'[n].trackId = older.id
                 /\ ~Gt(score(d), score(matchedPairs'[n].detectionIndex))
      ]_vars

\* C16: after a successful cycle the keys of the new Track Table are exactly
\* the tracks matched in the cycle, the tracks created in it and the
\* unmatched earlier tracks with now - lastSeen <= 20000; the three groups
\* are disjoint and no key occurs twice.
MatchedIds == {matchedPairs'[k].trackId : k \in 1..Len(matchedPairs')}
NewIds == {assigned'[n] : n \in (Len(assigned) + 1)..Len(assigned')}
CarriedIds ==
  {trackedFaces[i].id :
     i \in {j \in 1..Len(trackedFaces) :
              /\ ~Matched(matchedPairs', trackedFaces[j].id)
              /\ now' - trackedFaces[j].lastSeen <= 20000}}

C17_EveryDetectionAnnotated ==
  [][outcome' = "success" =>
       /\ \A i \in 1..Len(detectionResult') :
            LET face == detectionResult'[i]
            IN  /\ face.persistentId # 0
                /\ Cardinality(EntriesOf(trackedFaces', face.persistentId)) = 1
                /\ MapGet(trackedFaces', face.persistentId).boundingBox
                     = face.boundingBox
                /\ MapGet(trackedFaces', face.persistentId).lastSeen = now'
       /\ \A i, j \in 1..Len(detectionResult') :
            i # j => detectionResult'[i].persistentId
                       # detectionResult'[j].persistentId]_vars

C17_Witness ==
  /\ outcome = "success"
  /\ Len(matchedPairs) = 1
  /\ Len(detectionResult) = 2
  /\ detectionResult[1].persistentId # detectionResult[2].persistentId
  /\ \A i \in 1..2 :
       MapGet(trackedFaces, detectionResult[i].persistentId).lastSeen = now

\* C18: the Track Table changes only in a reconcile step, which installs
\* the complete new table (every detection of the cycle has its entry, no
\* key occurs twice), and in a stop or a start, which empty it; no tick,
\* cooldown callback, enrolment, failed call or clock step changes it.
C18_TableChangesAtomically ==
  [][trackedFaces' # trackedFaces =>
       \/ /\ outcome' \in {"stop", "start"}
          /\ trackedFaces' = <<>>
       \/ /\ outcome' = "success"
          /\ Len(trackedFaces') = Cardinality(MapKeys(trackedFaces'))
          /\ Shown(detectionResult') \subseteq MapKeys(trackedFaces')
          /\ \A i \in 1..Len(trackedFaces') :
               \/ trackedFaces'[i].lastSeen = now'
               \/ \E j \in 1..Len(trackedFaces) :
                    trackedFaces[j] = trackedFaces'[i]]_vars

C18_Witness ==
  /\ outcome = "success"
  /\ timeouts # <<>>
  /\ students # {}
  /\ \E i, j \in 1..Len(trackedFaces) :
       /\ trackedFaces[i].lastSeen = now
       /\ trackedFaces[j].lastSeen < now

\* C19: in a successful cycle a detection whose trackId is not enrolled (in
\* the students map the cycle holds) adds no attendance event and leaves
\* the registry entry of its trackId as it was, and its track is in the new
\* Track Table with the detection's region and lastSeen = now.
C19_UnenrolledStillTracked ==
  [][outcome' = "success" =>
       \A i \in 1..Len(detectionResult') :
         LET face == detectionResult'[i]
             id == face.persistentId
         IN  id \notin calls[1].students =>
               /\ ~Emitted(id)
               /\ id \in DOMAIN lastAttendanceLog'
                    <=> id \in DOMAIN lastAttendanceLog
               /\ id \in DOMAIN lastAttendanceLog =>
                    lastAttendanceLog'[id] = lastAttendanceLog[id]
               /\ MapHas(trackedFaces', id)
               /\ MapGet(trackedFaces', id).boundingBox = face.boundingBox
               /\ MapGet(trackedFaces', id).lastSeen = now']_vars

C19_Witness ==
  /\ outcome = "success"
  /\ Len(detectionResult) = 2
  /\ \E a, b \in Shown(detectionResult) :
       /\ a \in students
       /\ attendance # <<>>
       /\ attendance[Len(attendance)] = [persistentId |-> a, timestamp |-> now]
       /\ b \notin students
       /\ b \notin DOMAIN lastAttendanceLog
       /\ MapGet(trackedFaces, b).lastSeen = now

\* C20: a detection failure other than the rate-limit failure neither sets
\* the rate-limit pause nor starts a detection call nor re-arms the interval
\* timer: the next call is left to the next regular tick.
C20_FailureWaitsForTick ==
  [][outcome' = "failed" =>
       /\ isPausedForRateLimit' = isPausedForRateLimit
       /\ ~started'
       /\ intervalDue' = intervalDue]_vars

\* One reconcile step on detection lists that carry either of two labels,
\* from Track Tables whose entries carry either label.
LabelSet == {"person_1", "person_2"}
LabelBoxes == {BoxA, BoxFar}
LabelInstants == {1000, 21001}
LabelLists ==
  UNION {[1..n -> [boundingBox : LabelBoxes, personId : LabelSet]] :
           n \in 0..MaxDets}

LabelTables ==
  LET entries == [id : 1..MaxId, boundingBox : LabelBoxes, lastSeen : {1000},
                  geminiId : LabelSet]
  IN  {m \in UNION {[1..n -> entries] : n \in 0..MaxId} :
         \A i, j \in 1..Len(m) : i # j => m[i].id # m[j].id}

InitLabel ==
  /\ now \in LabelInstants
  /\ trackedFaces \in LabelTables
  /\ nextFaceId \in 1..(MaxId + 1)
  /\ \A i \in 1..Len(trackedFaces) : trackedFaces[i].id < nextFaceId
  /\ assigned = [i \in 1..(nextFaceId - 1) |-> i]
  /\ stream = TRUE
  /\ pendingStart = FALSE
  /\ srcObject = TRUE
  /\ isApiError = FALSE
  /\ isPausedForRateLimit = FALSE
  /\ students = {}
  /\ attendance = <<>>
  /\ lastAttendanceLog = EmptyLog
  /\ isProcessing = TRUE
  /\ calls = <<Closure({}, FALSE)>>
  /\ detectionResult = <<>>
  /\ intervalDue = now + ANALYSIS_INTERVAL
  /\ timeouts = <<>>
  /\ outcome = "tick"
  /\ matchedPairs = <<>>
  /\ replacedFaces = <<>>
  /\ rateLimitedAt = NoTimer
  /\ started = FALSE
  /\ scored = NotScored

NextLabel ==
  \E newDetections \in LabelLists, frame \in Frames :
    ResolveSuccess(1, newDetections, frame)

SpecLabel == InitLabel /\ [][NextLabel]_vars

\* C21: the label of a detection plays no part in identity: reconciling the
\* same Track Table, counter and now with the same regions under any other
\* labels gives the same matches, the same trackId on every detection and a
\* Track Table with the same keys in the same order, the same regions and
\* the same lastSeen values.
Relabelled(faces, labels) ==
  [i \in 1..Len(faces) |->
     [boundingBox |-> faces[i].boundingBox, personId |-> labels[i]]]
Unlabelled(m) ==
  [i \in 1..Len(m) |->
     [id |-> m[i].id, boundingBox |-> m[i].boundingBox,
      lastSeen |-> m[i].lastSeen]]
Identities(faces) == [i \in 1..Len(faces) |-> faces[i].persistentId]

C21_LabelsIgnored ==
  [][outcome' = "success" =>
       \A labels \in [1..Len(detectionResult') -> LabelSet] :
         \A other \in {Reconcile(trackedFaces, nextFaceId,
                               Relabelled(detectionResult', labels), now')} :
           /\ other.matchedPairs = matchedPairs'
           /\ Identities(other.faces) = Identities(detectionResult')
           /\ Unlabelled(other.trackedFaces) = Unlabelled(trackedFaces')
           /\ other.nextFaceId = nextFaceId'
           /\ \A i \in 1..Len(labels) :
                MapGet(other.trackedFaces, other.faces[i].persistentId).geminiId
                  = labels[i]]_vars

C21_Witness ==
  /\ outcome = "success"
  /\ Len(matchedPairs) = 1
  /\ Len(detectionResult) = 2
  /\ detectionResult[1].personId # detectionResult[2].personId
  /\ detectionResult[1].boundingBox = detectionResult[2].boundingBox

\* C22: calculateIoU returns 0 whenever either box has width <= 0 or
\* height <= 0 (both negative included, and two boxes of zero area alike),
\* and for every pair of boxes its result is at least 0 and at most 1.
Degenerate(box) ==
  AtMost(box.width, NumberZero) \/ AtMost(box.height, NumberZero)

C22_ScoreInUnitInterval ==
  Returned =>
    /\ Degenerate(scored.boxA) \/ Degenerate(scored.boxB)
         => IsZero(scored.iou)
    /\ AtMost(NumberZero, scored.iou)
    /\ AtMost(scored.iou, NumberOf(1))

\* C23: calculateIoU(a, b) = calculateIoU(b, a) for all boxes a and b, and
\* when both boxes have positive width and height the result is the area of
\* the intersection of the two rectangles divided by the area of their union.
Positive(box) ==
  Less(NumberZero, box.width) /\ Less(NumberZero, box.height)

\* the length of the common part of the intervals from lo1 to hi1 and from
\* lo2 to hi2
Overlap(lo1, hi1, lo2, hi2) ==
  IF AtMost(hi1, lo2) \/ AtMost(hi2, lo1) THEN NumberZero
  ELSE Minus(IF Less(hi1, hi2) THEN hi1 ELSE hi2,
             IF Less(lo1, lo2) THEN lo2 ELSE lo1)

Intersection(a, b) ==
  Times(Overlap(a.x, Plus(a.x, a.width), b.x, Plus(b.x, b.width)),
        Overlap(a.y, Plus(a.y, a.height), b.y, Plus(b.y, b.height)))

C23_SymmetricRatio ==
  Returned =>
    /\ scored.iou = calculateIoUNumber(scored.boxB, scored.boxA)
    /\ Positive(scored.boxA) /\ Positive(scored.boxB)
         => scored.iou =
              Over(Intersection(scored.boxA, scored.boxB),
                   Minus(Plus(Times(scored.boxA.width, scored.boxA.height),
                              Times(scored.boxB.width, scored.boxB.height)),
                         Intersection(scored.boxA, scored.boxB)))

C23_Witness ==
  /\ Returned
  /\ Positive(scored.boxA) /\ Positive(scored.boxB)
  /\ scored.boxA.width # scored.boxB.width
  /\ ~IsZero(scored.iou)
  /\ Less(scored.iou, NumberOf(1))

\* C24: in a successful cycle the tracks are processed in the order of the
\* Track Table, and for each one: it is matched exactly when some detection
\* that no earlier track of this cycle has taken scores strictly above 0.4
\* against its stored region; the detection it takes is one of those and none
\* of those outscores it; and no detection is taken twice, whatever the
\* later tracks would have scored against it.
TakenBefore(pairs, tracks, i) ==
  {pairs[k].detectionIndex :
     k \in {n \in 1..Len(pairs) : Position(tracks, pairs[n].trackId) < i}}

Candidates(track, detections, taken) ==
  {j \in 1..Len(detections) \ taken :
     Above04(calculateIoU(track.boundingBox, detections[j].boundingBox))}

C24_GreedyPerTrack ==
  [][outcome' = "success" =>
       /\ \A k, n \in 1..Len(matchedPairs') :
            k # n => matchedPairs'[k].detectionIndex
                       # matchedPairs'[n].detectionIndex
       /\ \A i \in 1..Len(trackedFaces) :
            \A open \in {Candidates(trackedFaces[i], detectionResult',
                                    TakenBefore(matchedPairs', trackedFaces,
                                                i))} :
              /\ Matched(matchedPairs', trackedFaces[i].id) <=> open # {}
              /\ \A k \in 1..Len(matchedPairs') :
                   matchedPairs'[k].trackId = trackedFaces[i].id =>
                     /\ matchedPairs'[k].detectionIndex \in open
                     /\ \A j \in open :
                          ~Gt(calculateIoU(trackedFaces[i].boundingBox,
                                           detectionResult'[j].boundingBox),
                              calculateIoU(trackedFaces[i].boundingBox,
                                detectionResult'[matchedPairs'[k].detectionIndex]
                                  .boundingBox))]_vars

\* a track left unmatched although it scores higher than the track that took
\* the detection: matching the detection to it would have scored more
C24_Witness ==
  /\ outcome = "success"
  /\ \E k \in 1..Len(matchedPairs), i \in 1..Len(replacedFaces) :
       /\ ~Matched(matchedPairs, replacedFaces[i].id)
       /\ Gt(calculateIoU(replacedFaces[i].boundingBox,
                          detectionResult[matchedPairs[k].detectionIndex]
                            .boundingBox),
             calculateIoU(MapGet(replacedFaces, matchedPairs[k].trackId)
                            .boundingBox,
                          detectionResult[matchedPairs[k].detectionIndex]
                            .boundingBox))

\* C25: in a successful cycle every detection that no match consumed creates
\* exactly one new track.  The counter advances by the number of those
\* detections; the i-th of them in list order receives the value the counter
\* had before the cycle plus i - 1; its track has the detection's region and
\* lastSeen = now.  A track of the old table that is unmatched and at most
\* 20000 ms old is in the new table exactly as it was.
Unconsumed ==
  {j \in 1..Len(detectionResult') :
     \A k \in 1..Len(matchedPairs') : matchedPairs'[k].detectionIndex # j}

C25_NewTracksNumbered ==
  [][outcome' = "success" =>
       /\ nextFaceId' = nextFaceId + Cardinality(Unconsumed)
       /\ \A j \in Unconsumed :
            \E id \in {nextFaceId
                         + Cardinality({u \in Unconsumed : u < j})} :
              /\ detectionResult'[j].persistentId = id
              /\ ~MapHas(trackedFaces, id)
              /\ Cardinality(EntriesOf(trackedFaces', id)) = 1
              /\ MapGet(trackedFaces', id).boundingBox
                   = detectionResult'[j].boundingBox
              /\ MapGet(trackedFaces', id).lastSeen = now'
       /\ \A i \in 1..Len(trackedFaces) :
            /\ ~Matched(matchedPairs', trackedFaces[i].id)
            /\ now' - trackedFaces[i].lastSeen <= 20000
            => \E n \in 1..Len(trackedFaces') :
                 trackedFaces'[n] = trackedFaces[i]]_vars

C25_Witness ==
  /\ outcome = "success"
  /\ matchedPairs = <<>>
  /\ Len(detectionResult) = 2
  /\ detectionResult[2].persistentId = detectionResult[1].persistentId + 1
  /\ nextFaceId = detectionResult[2].persistentId + 1
  /\ Len(assigned) = 2

\* C26: a track leaves the Track Table only in a successful cycle in which
\* it is unmatched and more than 20000 ms old.  A track more than 20000 ms
\* old is offered detections like any other: it is matched when a detection
\* no earlier track has taken scores strictly above 0.4 against it, and a
\* matched one is in the new table under its own trackId, with its
\* detection's region and lastSeen = now.
C26_OldTrackStillMatched ==
  [][outcome' = "success" =>
       \A i \in 1..Len(trackedFaces) :
         /\ ~MapHas(trackedFaces', trackedFaces[i].id) =>
              /\ ~Matched(matchedPairs', trackedFaces[i].id)
              /\ now' - trackedFaces[i].lastSeen > 20000
         /\ now' - trackedFaces[i].lastSeen > 20000 =>
              /\ Candidates(trackedFaces[i], detectionResult',
                            TakenBefore(matchedPairs', trackedFaces, i)) # {}
                   => Matched(matchedPairs', trackedFaces[i].id)
              /\ \A k \in 1..Len(matchedPairs') :
                   matchedPairs'[k].trackId = trackedFaces[i].id =>
                     /\ detectionResult'[matchedPairs'[k].detectionIndex]
                          .persistentId = trackedFaces[i].id
                     /\ Cardinality(EntriesOf(trackedFaces',
                                              trackedFaces[i].id)) = 1
                     /\ MapGet(trackedFaces', trackedFaces[i].id).lastSeen
                          = now'
                     /\ MapGet(trackedFaces', trackedFaces[i].id).boundingBox
                          = detectionResult'[matchedPairs'[k].detectionIndex]
                              .boundingBox]_vars

\* a track more than 20000 ms old has been matched and refreshed, and
\* another as old, unmatched, is gone
C26_Witness ==
  /\ outcome = "success"
  /\ \E k \in 1..Len(matchedPairs) :
       /\ now - MapGet(replacedFaces, matchedPairs[k].trackId).lastSeen > 20000
       /\ MapGet(trackedFaces, matchedPairs[k].trackId).lastSeen = now
  /\ \E i \in 1..Len(replacedFaces) : ~MapHas(trackedFaces, replacedFaces[i].id)

\* C27: a region of zero area never takes part in a match.  In a successful
\* cycle a detection of zero area is consumed by no track and gets a new
\* track of its own; a track whose stored region has zero area is matched to
\* nothing, stays as it was while now is at most 20000 ms after its
\* lastSeen, and is gone from the table as soon as now is more than that.
ZeroArea(box) == box.width * box.height = 0

C27_ZeroAreaNeverMatches ==
  [][outcome' = "success" =>
       /\ \A k \in 1..Len(matchedPairs') :
            /\ ~ZeroArea(detectionResult'[matchedPairs'[k].detectionIndex]
                           .boundingBox)
            /\ ~ZeroArea(MapGet(trackedFaces, matchedPairs'[k].trackId)
                           .boundingBox)
       /\ \A j \in 1..Len(detectionResult') :
            ZeroArea(detectionResult'[j].boundingBox) =>
              /\ detectionResult'[j].persistentId >= nextFaceId
              /\ detectionResult'[j].persistentId < nextFaceId'
              /\ MapGet(trackedFaces', detectionResult'[j].persistentId)
                   .boundingBox = detectionResult'[j].boundingBox
       /\ \A i \in 1..Len(trackedFaces) :
            ZeroArea(trackedFaces[i].boundingBox) =>
              /\ ~Matched(matchedPairs', trackedFaces[i].id)
              /\ IF now' - trackedFaces[i].lastSeen > 20000
                   THEN ~MapHas(trackedFaces', trackedFaces[i].id)
                   ELSE \E n \in 1..Len(trackedFaces') :
                          trackedFaces'[n] = trackedFaces[i]]_vars

\* a track of zero area, too old, is gone, and a detection with the very
\* same region has a new track
C27_Witness ==
  /\ outcome = "success"
  /\ \E i \in 1..Len(replacedFaces), j \in 1..Len(detectionResult) :
       /\ ZeroArea(replacedFaces[i].boundingBox)
       /\ now - replacedFaces[i].lastSeen > 20000
       /\ ~MapHas(trackedFaces, replacedFaces[i].id)
       /\ detectionResult[j].boundingBox = replacedFaces[i].boundingBox
       /\ ~MapHas(replacedFaces, detectionResult[j].persistentId)
       /\ MapHas(trackedFaces, detectionResult[j].persistentId)

\* C28: a detection call issued before capture was stopped has no effect
\* when it resolves after the stop: nothing is reconciled, so the Track Table,
\* the counter, the attendance list and the registry stay as they are, and
\* the Track Table is empty for as long as capture is stopped.
C28_StaleCallHasNoEffect ==
  /\ [](~stream => trackedFaces = <<>>)
  /\ [][outcome' = "success" /\ ~stream =>
          UNCHANGED <<trackedFaces, nextFaceId, attendance, lastAttendanceLog,
                      assigned>>]_vars

\* C29: a stop and a start leave the Last-Logged Registry, the enrolled set
\* and the attendance list as they are, while a start puts the counter back
\* to 1.  So in any successful cycle an enrolled trackId whose registry entry
\* is at most 300000 ms old adds no event and keeps its entry, whether its
\* track is an old one or one created in this cycle, and any two events for
\* one trackId lie more than 300000 ms apart, sessions notwithstanding.
C29_RegistrySurvivesRestart ==
  /\ [](outcome = "start" => nextFaceId = 1)
  /\ [](\A i, j \in 1..Len(attendance) :
          (i < j /\ attendance[i].persistentId = attendance[j].persistentId)
            => attendance[j].timestamp - attendance[i].timestamp > 300000)
  /\ [][outcome' \in {"stop", "start"} =>
          UNCHANGED <<lastAttendanceLog, students, attendance>>]_vars
  /\ [][outcome' = "success" =>
          \A id \in Shown(detectionResult') \cap calls[1].students :
            (id \in DOMAIN lastAttendanceLog
               /\ now' - lastAttendanceLog[id] <= 300000)
              => /\ ~Emitted(id)
                 /\ lastAttendanceLog'[id] = lastAttendanceLog[id]]_vars

\* trackId 1 has just been created again in a new session; it is enrolled
\* and was logged before, at most 300000 ms ago, and no event is added
C29_Witness ==
  /\ outcome = "success"
  /\ stream
  /\ \E j \in 1..Len(detectionResult) :
       \E id \in {detectionResult[j].persistentId} :
         /\ id = 1
         /\ ~MapHas(replacedFaces, id)
         /\ id = assigned[Len(assigned)]
         /\ id \in students
         /\ id \in DOMAIN lastAttendanceLog
         /\ lastAttendanceLog[id] < now
         /\ now - lastAttendanceLog[id] <= 300000
         /\ \A n \in 1..Len(attendance) : attendance[n].timestamp < now

\* The running capture with a camera whose frames may have zero dimensions
\* or no drawing context, and a detection service that answers every call:
\* the clock, the timer callbacks and the return of an outstanding call are
\* scheduled fairly.
BusyInstants == {1000, 31000, 62000}

BusyClock == \E t \in BusyInstants : Advance(t)
BusyCooldown ==
  \E j \in 1..Len(timeouts), frame \in Frames : TimeoutFires(j, frame)
BusyTick == \E frame \in Frames : Tick(frame)
BusyReturns ==
  \/ \E k \in 1..Len(calls), newDetections \in LiveLists, frame \in Frames :
       ResolveSuccess(k, newDetections, frame)
  \/ \E k \in 1..Len(calls) : ResolveRateLimit(k)
  \/ \E k \in 1..Len(calls), frame \in Frames : ResolveFailure(k, frame)

NextBusy ==
  \/ BusyClock
  \/ handleStartCamera
  \/ \E frame \in Frames : getUserMediaResolved(frame)
  \/ getUserMediaRejected
  \/ handleStopCamera
  \/ BusyTick
  \/ BusyReturns
  \/ BusyCooldown

SpecBusy ==
  /\ Init
  /\ [][NextBusy]_vars
  /\ WF_vars(BusyClock)
  /\ WF_vars(BusyCooldown)
  /\ WF_vars(BusyTick)
  /\ WF_vars(BusyReturns)

\* C30: every started cycle releases the busy flag.  The flag is set only
\* while a detection call is outstanding; a cycle that skips its frame (zero
\* dimensions, no drawing context) leaves the flag idle; when a call returns,
\* in any of the three ways, the flag is idle unless a new call was started
\* in the same step; and, every call returning, a busy loop always comes to
\* the return of its call, and a call is started only when the flag was idle
\* or was released in that very step.
ReleaseStep ==
  /\ outcome' \in Resolutions => (isProcessing' => started')
  /\ (outcome' = "tick" /\ ~isProcessing) =>
       /\ isProcessing' <=> started'
       /\ started' <=> calls' # calls
  /\ started' => (isProcessing => outcome' \in Resolutions)

C30_BusyFlagReleased ==
  /\ [](isProcessing => calls # <<>>)
  /\ [][ReleaseStep]_vars
  /\ (isProcessing /\ outcome \notin Resolutions) ~> (outcome \in Resolutions)

\* a later tick has started a call, after an earlier call had returned with
\* a failure
C30_Witness ==
  /\ outcome = "tick"
  /\ started
  /\ isProcessing
  /\ now > 1000
  /\ isApiError

TypeOK ==
  /\ Len(calls) <= 1
  /\ nextFaceId \in 1..(MaxId + 1)

====
